---- MODULE Spec2Model ----
(***************************************************************************)
(* RADSan example lambda_templated_invoke_big_capture.cpp: main prints a   *)
(* status line and returns process(); the realtime function process()      *)
(* value-initialises an 8-float array, captures it by value in a lambda    *)
(* and calls the lambda through the function template invoke.              *)
(*                                                                         *)
(* Numbers: a floating-point value x is represented by the integer 4*x     *)
(* (quarter units).  A double can hold every such integer; a float, which  *)
(* has less precision, holds only the even ones (multiples of one half).   *)
(***************************************************************************)
EXTENDS Integers, Sequences, FiniteSets, TLC

VARIABLES
    pc,           \* position of the running function (top of the call stack)
    stack,        \* call stack: sequence of function names, innermost last
    mem,          \* storage of the local `data` of process()
    dataAlive,    \* whether `data` is within its lifetime
    closure,      \* storage of the lambda temporary: [data |-> captured copy]
    closureAlive, \* whether the lambda temporary is within its lifetime
    func,         \* the callable bound to invoke's parameter `func`
    ret,          \* the value being returned by the last function that returned
    fret,         \* the value the callable produced (before any conversion)
    calls,        \* number of times a callable has been invoked by invoke
    out,          \* lines written to std::cout
    exitStatus,   \* process exit status; -1 while the program runs
    events,       \* history: the operations performed, with the realtime flag
    accesses      \* history: the element accesses made to either buffer

vars == <<pc, stack, mem, dataAlive, closure, closureAlive, func, ret, fret,
          calls, out, exitStatus, events, accesses>>

----------------------------------------------------------------------------
\* Program constants and model bounds

N == 8
\* An index one past the last element.
ReadIndexPastEnd == N
\* The index the lambda body reads: `data[3]`.
ReadIndex == 3
MaxGarbage == 1
MaxVal == 8

Index == 0 .. (N - 1)
\* The message of the examples that are meant to be flagged.
StatusLineFail == "I should fail!\n"
StatusLine == "I should pass!\n"

\* What uninitialised or out-of-lifetime float storage may hold.
GarbageVals == {4 * g : g \in 0 .. MaxGarbage}

ZeroBuf == [i \in Index |-> 0]
NoFunc == [kind |-> "none", rtype |-> "float", value |-> 0]
LambdaFunc == [kind |-> "closure", rtype |-> "float", value |-> 0]

----------------------------------------------------------------------------
\* Pure operations

\* `std::array<float, 8> data;` : no initialiser, the storage keeps its content.
DefaultInit(m) == m
\* `std::array<float, 8>{}` : value-initialisation zeroes every element.
ValueInit(m) == [i \in DOMAIN m |-> 0]

\* `[data]` : the closure object holds its own copy of the array.
CaptureByValue(m) == [data |-> [i \in DOMAIN m |-> m[i]]]

\* `[&data]` : the lambda body would read the original's storage.
ClosureBufferByRef(cl, m) == m
\* The buffer named `data` inside the lambda body: the closure's member.
ClosureBuffer(cl, m) == cl.data

\* The lifetime that governs a read of `data` inside the lambda body.
ClosureBufferLive == closureAlive

\* std::array::operator[] : the element when the object is alive and the index
\* is in range; anything otherwise (undefined behaviour).
Subscript(buf, i, live) ==
    IF live /\ i \in DOMAIN buf THEN {buf[i]} ELSE GarbageVals

\* Conversion of a value to float: round to the nearest representable value,
\* ties to the one with an even significand.
ToFloat(v) ==
    IF v % 2 = 0 THEN v
    ELSE IF (v + 1) % 4 = 0 THEN v + 1 ELSE v - 1

\* Conversion float -> int: truncation toward zero.
FloatToInt(v) == IF v >= 0 THEN v \div 4 ELSE -((-v) \div 4)

\* `int invoke(...)` : the result would pass through int.
InvokeResultInt(v) == 4 * FloatToInt(v)
\* `float invoke(Func &&func) { return func(); }` : the callable's result is
\* converted to the declared return type float.
InvokeResult(v) == ToFloat(v)

\* A std::function<float()> parameter keeps captures larger than its local
\* buffer on the heap.
StdFunctionStorage(bytes) == IF bytes > 16 THEN "heap" ELSE "inline"
\* `template <typename Func> ... Func &&func` binds a reference to the lambda
\* temporary, which lives in process()'s stack frame: no type erasure, no copy.
InvokeArgStorage(bytes) == "stack"

\* A type-erased call goes through the wrapper's call operator first.
ErasedCallFrames(f) == <<"std::function::operator()", f.kind>>
\* `func()` in invoke: a direct call of the callable's call operator.
InvokeCallFrames(f) == <<f.kind>>

InRT == \E i \in DOMAIN stack : stack[i] = "process"
Ev(op) == [op |-> op, rt |-> InRT]
Pop(s, n) == SubSeq(s, 1, Len(s) - n)
Top(s) == s[Len(s)]

\* Where control continues in the caller of invoke.
ReturnSite(f) ==
    CASE f = "process" -> "process_end_expr"
      [] f = "test_invoke" -> "test_invoke_done"
      [] f = "test_copy" -> "test_copy_done"

----------------------------------------------------------------------------
\* Initial states

InitCommon ==
    /\ dataAlive = FALSE
    /\ closureAlive = FALSE
    /\ ret = 0
    /\ fret = 0
    /\ calls = 0
    /\ out = <<>>
    /\ exitStatus = -1
    /\ events = <<>>
    /\ accesses = {}

\* The stack memory that will hold `data` and the lambda temporary is
\* uninitialised when the program starts.
InitStackMemory ==
    /\ mem \in [Index -> GarbageVals]
    /\ \E g \in GarbageVals : closure = [data |-> [i \in Index |-> g]]

Init ==
    /\ InitCommon
    /\ InitStackMemory
    /\ pc = "main_print"
    /\ stack = <<"main">>
    /\ func = NoFunc

----------------------------------------------------------------------------
\* main (lines 19-22)

\* std::cout << "I should pass!\n";
MainPrint ==
    /\ pc = "main_print"
    /\ out' = Append(out, StatusLine)
    /\ events' = Append(events, Ev("io_write"))
    /\ pc' = "main_call_process"
    /\ UNCHANGED <<stack, mem, dataAlive, closure, closureAlive, func, ret,
                   fret, calls, exitStatus, accesses>>

\* return process();  -- the call
MainCallProcess ==
    /\ pc = "main_call_process"
    /\ stack' = Append(stack, "process")
    /\ events' = Append(events, [op |-> "enter_process", rt |-> TRUE])
    /\ pc' = "process_init"
    /\ UNCHANGED <<mem, dataAlive, closure, closureAlive, func, ret, fret,
                   calls, out, exitStatus, accesses>>

\* return process();  -- conversion of the float result to int, program exit
MainReturn ==
    /\ pc = "main_return"
    /\ exitStatus' = FloatToInt(ret)
    /\ stack' = Pop(stack, 1)
    /\ events' = Append(events, [op |-> "exit", rt |-> FALSE])
    /\ pc' = "exited"
    /\ UNCHANGED <<mem, dataAlive, closure, closureAlive, func, ret, fret,
                   calls, out, accesses>>

----------------------------------------------------------------------------
\* process (lines 14-17)

\* auto data = std::array<float, 8>{};
InitDataStep(from, to) ==
    /\ pc = from
    /\ mem' = ValueInit(mem)
    /\ dataAlive' = TRUE
    /\ accesses' = accesses \cup
           {[buf |-> "data", kind |-> "init", idx |-> i, live |-> TRUE] :
               i \in DOMAIN mem}
    /\ events' = Append(events, Ev("init_buffer"))
    /\ pc' = to
    /\ UNCHANGED <<stack, closure, closureAlive, func, ret, fret, calls, out,
                   exitStatus>>

\* [data]() { return data[3]; }  -- construction of the closure object
BuildClosureStep(from, to) ==
    /\ pc = from
    /\ closure' = CaptureByValue(mem)
    /\ closureAlive' = TRUE
    /\ accesses' = accesses \cup
           {[buf |-> "data", kind |-> "copy_from", idx |-> i,
             live |-> dataAlive] : i \in DOMAIN mem}
           \cup
           {[buf |-> "copy", kind |-> "init", idx |-> i, live |-> TRUE] :
               i \in DOMAIN mem}
    /\ events' = events \o
           (IF InvokeArgStorage(N * 4) = "heap"
              THEN <<Ev("heap_alloc")>> ELSE <<>>)
           \o <<Ev("build_closure")>>
    /\ pc' = to
    /\ UNCHANGED <<stack, mem, dataAlive, func, ret, fret, calls, out,
                   exitStatus>>

\* invoke( <closure> )  -- the call; `func` is bound to the closure
CallInvokeStep(from, f) ==
    /\ pc = from
    /\ func' = f
    /\ stack' = Append(stack, "invoke")
    /\ events' = Append(events, Ev("enter_invoke"))
    /\ pc' = "invoke_call"
    /\ UNCHANGED <<mem, dataAlive, closure, closureAlive, ret, fret, calls,
                   out, exitStatus, accesses>>

ProcessInitData == InitDataStep("process_init", "process_build_closure")

ProcessBuildClosure ==
    BuildClosureStep("process_build_closure", "process_call_invoke")

ProcessCallInvoke == CallInvokeStep("process_call_invoke", LambdaFunc)

\* The closure stays alive past the return statement (a leaked temporary).
ProcessEndExprLeak ==
    /\ pc = "process_end_expr"
    /\ events' = Append(events, Ev("destroy_closure"))
    /\ pc' = "process_return"
    /\ UNCHANGED <<stack, mem, dataAlive, closure, closureAlive, func, ret,
                   fret, calls, out, exitStatus, accesses>>

\* End of the full-expression `invoke(...)`: the lambda temporary is destroyed.
ProcessEndExpr ==
    /\ pc = "process_end_expr"
    /\ closureAlive' = FALSE
    /\ events' = Append(events, Ev("destroy_closure"))
    /\ pc' = "process_return"
    /\ UNCHANGED <<stack, mem, dataAlive, closure, func, ret, fret, calls,
                   out, exitStatus, accesses>>

\* } of process: `data` is destroyed, control returns to main.
ProcessReturn ==
    /\ pc = "process_return"
    /\ dataAlive' = FALSE
    /\ stack' = Pop(stack, 1)
    /\ events' = Append(events, [op |-> "process_return", rt |-> TRUE])
    /\ pc' = "main_return"
    /\ UNCHANGED <<mem, closure, closureAlive, func, ret, fret, calls, out,
                   exitStatus, accesses>>

----------------------------------------------------------------------------
\* invoke (line 12)

\* func()  -- the call
InvokeCallFunc ==
    /\ pc = "invoke_call"
    /\ Top(stack) = "invoke"
    /\ stack' = stack \o InvokeCallFrames(func)
    /\ calls' = calls + 1
    /\ events' = Append(events, Ev("call_func"))
    /\ pc' = IF func.kind = "closure" THEN "lambda_body" ELSE "const_body"
    /\ UNCHANGED <<mem, dataAlive, closure, closureAlive, func, ret, fret,
                   out, exitStatus, accesses>>

\* return func();  -- conversion to float and return to the caller
InvokeReturn ==
    /\ pc = "invoke_return"
    /\ Top(stack) = "invoke"
    /\ ret' = InvokeResult(ret)
    /\ stack' = Pop(stack, 1)
    /\ events' = Append(events, Ev("invoke_return"))
    /\ pc' = ReturnSite(Top(Pop(stack, 1)))
    /\ UNCHANGED <<mem, dataAlive, closure, closureAlive, func, fret, calls,
                   out, exitStatus, accesses>>

----------------------------------------------------------------------------
\* The lambda body (line 16): return data[3];

\* data[3]  -- the call of std::array::operator[]
ClosureCallSubscript ==
    /\ pc = "lambda_body"
    /\ stack' = Append(stack, "operator[]")
    /\ events' = Append(events, Ev("call_subscript"))
    /\ pc' = "subscript"
    /\ UNCHANGED <<mem, dataAlive, closure, closureAlive, func, ret, fret,
                   calls, out, exitStatus, accesses>>

\* operator[] reads the element and returns it
SubscriptReturn ==
    /\ pc = "subscript"
    /\ \E v \in Subscript(ClosureBuffer(closure, mem), ReadIndex,
                          ClosureBufferLive) :
           ret' = v
    /\ accesses' = accesses \cup
           {[buf |-> "copy", kind |-> "read", idx |-> ReadIndex,
             live |-> ClosureBufferLive]}
    /\ stack' = Pop(stack, 1)
    /\ events' = Append(events, Ev("read_element"))
    /\ pc' = "lambda_return"
    /\ UNCHANGED <<mem, dataAlive, closure, closureAlive, func, fret, calls,
                   out, exitStatus>>

\* the lambda returns the element to invoke
ClosureReturn ==
    /\ pc = "lambda_return"
    /\ fret' = ret
    /\ stack' = Pop(stack, Len(InvokeCallFrames(func)))
    /\ events' = Append(events, Ev("func_return"))
    /\ pc' = "invoke_return"
    /\ UNCHANGED <<mem, dataAlive, closure, closureAlive, func, ret, calls,
                   out, exitStatus, accesses>>

Next ==
    \/ MainPrint
    \/ MainCallProcess
    \/ ProcessInitData
    \/ ProcessBuildClosure
    \/ ProcessCallInvoke
    \/ InvokeCallFunc
    \/ ClosureCallSubscript
    \/ SubscriptReturn
    \/ ClosureReturn
    \/ InvokeReturn
    \/ ProcessEndExpr
    \/ ProcessReturn
    \/ MainReturn

Spec == Init /\ [][Next]_vars

\* The program is a single thread that always takes its next step.
FairSpec == Spec /\ WF_vars(Next)

----------------------------------------------------------------------------
\* invoke applied to other callables: `Func` is any type callable with no
\* arguments whose result converts to float.

\* A callable returning a constant: of type float (a representable value) or
\* of type double (any value).
ConstCallables ==
    {[kind |-> "const", rtype |-> "double", value |-> v] :
        v \in (-MaxVal) .. MaxVal}
    \cup
    {[kind |-> "const", rtype |-> "float", value |-> v] :
        v \in {w \in (-MaxVal) .. MaxVal : w % 2 = 0}}

InitInvoke ==
    /\ InitCommon
    /\ mem = ZeroBuf
    /\ closure = [data |-> ZeroBuf]
    /\ pc = "test_invoke_call"
    /\ stack = <<"test_invoke">>
    /\ func \in ConstCallables

\* invoke(f)  -- the call, from a caller other than process()
TestCallInvoke == CallInvokeStep("test_invoke_call", func)

\* The body of a constant callable: return <value>;
ConstBody ==
    /\ pc = "const_body"
    /\ ret' = func.value
    /\ fret' = func.value
    /\ stack' = Pop(stack, Len(InvokeCallFrames(func)))
    /\ events' = Append(events, Ev("func_return"))
    /\ pc' = "invoke_return"
    /\ UNCHANGED <<mem, dataAlive, closure, closureAlive, func, calls, out,
                   exitStatus, accesses>>

NextInvoke ==
    \/ TestCallInvoke
    \/ InvokeCallFunc
    \/ ConstBody
    \/ InvokeReturn

SpecInvoke == InitInvoke /\ [][NextInvoke]_vars

----------------------------------------------------------------------------
\* The closure used after the scope of the original buffer has ended: the
\* buffer is built and captured as in process(), its scope ends, and the
\* closure is then passed to invoke.

InitCopy ==
    /\ InitCommon
    /\ InitStackMemory
    /\ pc = "test_copy_init"
    /\ stack = <<"test_copy">>
    /\ func = NoFunc

TestCopyInit == InitDataStep("test_copy_init", "test_copy_capture")

TestCopyCapture == BuildClosureStep("test_copy_capture", "test_copy_end_scope")

\* The scope of `data` ends while the closure lives on; the storage of `data`
\* is reused and may hold anything afterwards.
TestCopyEndScope ==
    /\ pc = "test_copy_end_scope"
    /\ dataAlive' = FALSE
    /\ mem' \in [Index -> GarbageVals]
    /\ events' = Append(events, Ev("end_scope"))
    /\ pc' = "test_copy_call"
    /\ UNCHANGED <<stack, closure, closureAlive, func, ret, fret, calls, out,
                   exitStatus, accesses>>

TestCopyCall == CallInvokeStep("test_copy_call", LambdaFunc)

NextCopy ==
    \/ TestCopyInit
    \/ TestCopyCapture
    \/ TestCopyEndScope
    \/ TestCopyCall
    \/ InvokeCallFunc
    \/ ClosureCallSubscript
    \/ SubscriptReturn
    \/ ClosureReturn
    \/ InvokeReturn

SpecCopy == InitCopy /\ [][NextCopy]_vars

----------------------------------------------------------------------------
\* Properties

OpsOf(es) == [i \in DOMAIN es |-> es[i].op]
IsPrefix(s, t) == Len(s) <= Len(t) /\ s = SubSeq(t, 1, Len(s))
Happened(op) == \E i \in DOMAIN events : events[i].op = op

\* C1 (as stated): one call of invoke(f) invokes f exactly once and returns
\* exactly the value f returned, unchanged, for every callable f.
C1_ReturnsUnchanged ==
    pc = "test_invoke_done" => (calls = 1 /\ ret = fret)

\* C1 (amended): one call of invoke(f) invokes f exactly once, between the
\* entry of invoke and its return, and returns the value f returned converted
\* to float: unchanged when f returns a float, rounded to the nearest float
\* when f returns a double that no float represents.
C1_InvokeOnceConverted ==
    /\ calls <= 1
    /\ IsPrefix(OpsOf(events),
                <<"enter_invoke", "call_func", "func_return", "invoke_return">>)
    /\ (pc = "test_invoke_call" => calls = 0)
    /\ (pc = "const_body" =>
           calls = 1 /\ Len(stack) >= 2 /\ stack[Len(stack) - 1] = "invoke")
    /\ (pc \in {"invoke_return", "test_invoke_done"} =>
           calls = 1 /\ fret = func.value)
    /\ (pc = "test_invoke_done" =>
           /\ ret = ToFloat(fret)
           /\ (func.rtype = "float" => ret = fret))

C1_Witness ==
    pc = "test_invoke_done" /\ calls = 1 /\ func.rtype = "double"
    /\ ret = ToFloat(fret) /\ ret # fret

\* C2: every run writes exactly the line "I should pass!\n" to standard
\* output, once and before process() is called, and exits with status 0, the
\* integer truncation of the value process() returned.
C2_OutputAndExit ==
    /\ (pc = "main_print" => out = <<>> /\ ~Happened("enter_process"))
    /\ (pc # "main_print" => out = <<"I should pass!\n">>)
    /\ (pc # "exited" => exitStatus = -1)
    /\ (pc = "exited" => exitStatus = 0 /\ exitStatus = FloatToInt(ret))

C2_Witness ==
    pc = "exited" /\ out = <<"I should pass!\n">> /\ exitStatus = 0
    /\ Happened("process_return")

\* C3: every call of process() returns 0.0, the element at index 3 of the
\* closure's copy of the zero-initialised buffer.
C3_ProcessReturnsZero ==
    /\ (pc = "lambda_return" => ret = closure.data[3] /\ ret = 0)
    /\ (pc \in {"invoke_return", "process_end_expr", "process_return"} =>
           fret = closure.data[3] /\ ret = 0)
    /\ (pc \in {"main_return", "exited"} => ret = 0)

C3_Witness == pc = "main_return" /\ ret = 0 /\ calls = 1

\* C4: while process() is on the call stack no heap allocation, no lock and
\* no I/O happens; the standard-output write happens outside it.
C4_NoDisallowedInRealtime ==
    \A i \in DOMAIN events :
        events[i].op \in {"heap_alloc", "lock", "io_write"} => ~events[i].rt

C4_Witness ==
    /\ pc = "exited"
    /\ \E i \in DOMAIN events : events[i].op = "io_write" /\ ~events[i].rt
    /\ \E i \in DOMAIN events : events[i].op = "build_closure" /\ events[i].rt
    /\ \E i \in DOMAIN events : events[i].op = "read_element" /\ events[i].rt

C6_CopyIndependence ==
    /\ (closureAlive /\ ~dataAlive =>
           \A i \in Index : ClosureBuffer(closure, mem)[i] = 0)
    /\ (pc \in {"lambda_return", "invoke_return", "test_copy_done"} => ret = 0)

C6_Witness ==
    pc = "test_copy_done" /\ ~dataAlive /\ mem[3] # 0 /\ ret = 0 /\ calls = 1

\* C7: the closure never outlives process(): it is alive only while process()
\* is active and the buffer is alive, it is invoked only while alive, both
\* objects are dead once process() has returned, every access is made to a
\* live object and no access is made after process() has returned.
C7_Lifetimes ==
    /\ [](/\ (closureAlive => dataAlive /\ InRT)
          /\ (dataAlive => InRT)
          /\ ((\E i \in DOMAIN stack : stack[i] = "closure") => closureAlive)
          /\ (pc \in {"main_return", "exited"} =>
                 ~dataAlive /\ ~closureAlive /\ calls = 1)
          /\ (\A a \in accesses : a.live))
    /\ [][~InRT' => accesses' = accesses]_vars

C7_Witness ==
    pc = "exited" /\ ~dataAlive /\ ~closureAlive /\ calls = 1
    /\ Happened("destroy_closure")

\* C8: while the original buffer or the closure's copy exists all 8 of its
\* elements are 0.0, no step changes either buffer during its lifetime, and
\* the steps of invoke change none of the buffers, the output or the exit
\* status.
C8_NoMutation ==
    /\ [](/\ (dataAlive => \A i \in Index : mem[i] = 0)
          /\ (closureAlive => \A i \in Index : closure.data[i] = 0))
    /\ [][/\ (dataAlive /\ dataAlive' => mem' = mem)
          /\ (closureAlive /\ closureAlive' => closure' = closure)
          /\ (Top(stack) = "invoke" =>
                 UNCHANGED <<mem, dataAlive, closure, closureAlive, out,
                             exitStatus>>)]_vars

C8_Witness ==
    pc = "invoke_return" /\ dataAlive /\ closureAlive /\ calls = 1

\* The number of successor states of the current state.
NumSuccessors ==
      (IF ENABLED MainPrint THEN 1 ELSE 0)
    + (IF ENABLED MainCallProcess THEN 1 ELSE 0)
    + (IF ENABLED ProcessInitData THEN 1 ELSE 0)
    + (IF ENABLED ProcessBuildClosure THEN 1 ELSE 0)
    + (IF ENABLED ProcessCallInvoke THEN 1 ELSE 0)
    + (IF ENABLED InvokeCallFunc THEN 1 ELSE 0)
    + (IF ENABLED ClosureCallSubscript THEN 1 ELSE 0)
    + (IF pc = "subscript"
         THEN Cardinality(Subscript(ClosureBuffer(closure, mem), ReadIndex,
                                    ClosureBufferLive))
         ELSE 0)
    + (IF ENABLED ClosureReturn THEN 1 ELSE 0)
    + (IF ENABLED InvokeReturn THEN 1 ELSE 0)
    + (IF ENABLED ProcessEndExpr THEN 1 ELSE 0)
    + (IF ENABLED ProcessReturn THEN 1 ELSE 0)
    + (IF ENABLED MainReturn THEN 1 ELSE 0)

\* C9: every run terminates and all runs are alike: each state has at most one
\* successor (exactly one until exit), the events of a run are always the same
\* sequence, and exit is eventually reached with the same output and status.
C9_SingleBehaviour ==
    /\ [](/\ NumSuccessors = (IF pc = "exited" THEN 0 ELSE 1)
          /\ IsPrefix(OpsOf(events),
                 <<"io_write", "enter_process", "init_buffer",
                   "build_closure", "enter_invoke", "call_func",
                   "call_subscript", "read_element", "func_return",
                   "invoke_return", "destroy_closure", "process_return",
                   "exit">>)
          /\ (pc = "exited" =>
                 /\ Len(events) = 13
                 /\ out = <<"I should pass!\n">>
                 /\ exitStatus = 0))
    /\ <>(pc = "exited")

C9_Witness == pc = "exited" /\ Len(events) = 13 /\ exitStatus = 0

\* The calls nested inside process(): the frames above it on the call stack.
NestedInProcess ==
    IF InRT
      THEN LET p == CHOOSE i \in DOMAIN stack : stack[i] = "process"
           IN  SubSeq(stack, p + 1, Len(stack))
      ELSE <<>>

\* C10 (as stated): the depth of calls nested inside process() is at most one.
C10_OneNestedCall == Len(NestedInProcess) <= 1

\* C10 (amended): the calls nested inside process() are, from the outside in,
\* invoke, the closure's call operator and the buffer's subscript operator:
\* the depth is at most three, and at most two counting only the functions the
\* program defines.
C10_NestedCalls ==
    /\ IsPrefix(NestedInProcess, <<"invoke", "closure", "operator[]">>)
    /\ Len(NestedInProcess) <= 3
    /\ Len(SelectSeq(NestedInProcess, LAMBDA f : f # "operator[]")) <= 2

C10_Witness == Len(NestedInProcess) = 3 /\ pc = "subscript"

====
